---- MODULE Spec2Model ----
(***************************************************************************)
(* Pricing & Services card view (src/app.py).                              *)
(*                                                                         *)
(* One Google worksheet is the backing store.  Every browser session runs  *)
(* main() top to bottom once per interaction: credential upload, parse,    *)
(* load of the whole sheet into a DataFrame, filter/search, one edit form  *)
(* per card of the filtered view, the add form, the exports.  Sessions     *)
(* share nothing but the worksheet, and their gateway calls interleave.    *)
(*                                                                         *)
(* Text is modelled as a sequence of one-character strings, so that        *)
(* lower() and the substring test are computed and not assumed.            *)
(***************************************************************************)
EXTENDS Integers, Sequences, FiniteSets, TLC

\* ---------------------------------------------------------------- bounds
MaxRows == 3        \* data rows the worksheet may hold
MaxRuns == 2        \* runs of main() over all sessions

Sessions == {"s1", "s2"}

\* ------------------------------------------------------------------ text
LowerChar(c) ==
    CASE c = "A" -> "a"
      [] c = "B" -> "b"
      [] c = "X" -> "x"
      [] c = "Y" -> "y"
      [] OTHER -> c

\* str.lower()
Lower(t) == [i \in 1..Len(t) |-> LowerChar(t[i])]

\* Python's  sub in t  on strings
Contains(sub, t) ==
    \E i \in 0..(Len(t) - Len(sub)) : SubSeq(t, i + 1, i + Len(sub)) = sub

\* ------------------------------------------------------ rows and records
\* get_all_records() and df[VISIBLE_COLUMNS]: the five cells A..E of a row
\* become a record keyed by the header
RowToRecord(cells) ==
    [category |-> cells[1], item |-> cells[2], price |-> cells[3],
     turnaround |-> cells[4], notes |-> cells[5]]

\* a worksheet row all of whose cells are empty (price -1: no number)
Blank == << <<>>, <<>>, -1, <<>>, <<>> >>

P1 == << <<"X">>, <<"a">>, 1, <<"b">>, <<>> >>
P2 == << <<"X">>, <<"a">>, 2, <<"b">>, <<"1">> >>
P3 == << <<"Y">>, <<"B">>, 1, <<>>, <<>> >>


\* what a user may type into the five widgets of the add form, and of an
\* edit form
F1 == [category |-> <<"Y">>, item |-> <<"b">>, price |-> 2,
       turnaround |-> <<>>, notes |-> <<>>]
F2 == [category |-> <<"X">>, item |-> <<>>, price |-> 1,
       turnaround |-> <<>>, notes |-> <<>>]
FormInputs == {F1, F2}
EditInputs == {F1}

\* the widgets of a step that submits no form
NoForm == [category |-> <<>>, item |-> <<>>, price |-> -1,
           turnaround |-> <<>>, notes |-> <<>>]

All == <<"A", "l", "l">>
\* what a user may pick in the selectbox and type into the search box
CategoryPicks == {All, <<"X">>}
SearchTerms == {<<>>, <<"b">>}

\* rows and search terms of the runs that only load and filter
ViewRows == {P1, P2, P3, << <<"Y">>, <<"a", "B">>, 2, <<"1">>, <<"A">> >>}
ViewPicks == {All, <<"X">>, <<"Y">>}
ViewTerms == {<<>>, <<"b">>, <<"B">>, <<"1">>, <<"A", "b">>, <<"b", "a">>}

\* ------------------------------------------------------- the worksheet
\* drop trailing empty rows: the sheet's data ends at its last non-empty row
RECURSIVE Trim(_)
Trim(rows) ==
    IF rows # <<>> /\ rows[Len(rows)] = Blank
    THEN Trim(SubSeq(rows, 1, Len(rows) - 1))
    ELSE rows

\* sheet row number n (header is row 1) <-> position n - 1 of the data rows

\* a write that inserts a new row n instead of overwriting row n
SheetUpdateInserts(rows, n, cells) ==
    IF n - 1 <= Len(rows)
    THEN SubSeq(rows, 1, n - 2) \o <<cells>> \o SubSeq(rows, n - 1, Len(rows))
    ELSE rows \o <<cells>>

\* worksheet.update("A{n}:E{n}", [values])
SheetUpdate(rows, n, cells) ==
    IF n - 1 <= Len(rows)
    THEN [rows EXCEPT ![n - 1] = cells]
    ELSE rows \o [i \in 1..(n - 2 - Len(rows)) |-> Blank] \o <<cells>>

\* worksheet.append_row(values)
SheetAppend(rows, cells) == rows \o <<cells>>

\* a delete that clears the cells of row n and leaves the row in place
SheetDeleteClears(rows, n) ==
    IF n - 1 <= Len(rows)
    THEN Trim([rows EXCEPT ![n - 1] = Blank])
    ELSE rows

\* worksheet.delete_rows(n)
SheetDelete(rows, n) ==
    IF n - 1 <= Len(rows)
    THEN Trim(SubSeq(rows, 1, n - 2) \o SubSeq(rows, n, Len(rows)))
    ELSE rows

\* ------------------------------------------------------------ the view
\* pd.DataFrame(records): row i of the data gets index label i (0-based)
Frame(rows) ==
    [i \in 1..Len(rows) |-> [idx |-> i - 1, rec |-> RowToRecord(rows[i])]]

\* filtered_df[filtered_df["Service Category"] == selected_cat]
FilterCategory(frame, cat) ==
    IF cat # All
    THEN SelectSeq(frame, LAMBDA e : e.rec.category = cat)
    ELSE frame

\* a mask over the whole row: every column, the price as its digits
MaskFullRow(r, term) ==
    LET digits == IF r.price = 1 THEN <<"1">>
                  ELSE IF r.price = 2 THEN <<"2">> ELSE <<"0">>
        text == r.category \o <<" ">> \o r.item \o <<" ">> \o digits
                  \o <<" ">> \o r.turnaround \o <<" ">> \o r.notes
    IN  Contains(Lower(term), Lower(text))

\* the search mask of one row (str() of a text cell is the text itself)
Mask(r, term) ==
    \/ Contains(Lower(term), Lower(r.item))
    \/ Contains(Lower(term), Lower(r.notes))

FilterSearch(frame, term) ==
    IF term # <<>>
    THEN SelectSeq(frame, LAMBDA e : Mask(e.rec, term))
    ELSE frame

FilteredDf(frame, cat, term) == FilterSearch(FilterCategory(frame, cat), term)

\* a row number that forgets the header row
SheetRowNumNoHeader(frame, e) == e.idx + 1

\* a row number looked up by (category, item): the first match in the frame
SheetRowNumByKey(frame, e) ==
    LET hits == {i \in 1..Len(frame) :
                   /\ frame[i].rec.category = e.rec.category
                   /\ frame[i].rec.item = e.rec.item}
    IN  (CHOOSE i \in hits : \A j \in hits : i <= j) + 1

\* sheet_row_num = idx + 2
SheetRowNum(frame, e) == e.idx + 2

\* [category, item, price, turnaround, notes]
Values(f) == <<f.category, f.item, f.price, f.turnaround, f.notes>>

\* ["All"] + sorted(df["Service Category"].unique())
Categories(frame) == {All} \cup {frame[i].rec.category : i \in 1..Len(frame)}

\* ----------------------------------------------------------------- state
VARIABLES
    store,          \* the worksheet's data rows; store[i] is sheet row i + 1
    pc,             \* where each session's run of main() stands
    json_file,      \* the credential file each session's run was given
    df,             \* each session's DataFrame, as (index label, record) pairs
    selected_cat,   \* each session's category selectbox
    search_term,    \* each session's search box
    cursor,         \* position of the card loop in filtered_df
    msg,            \* the last st.warning / st.error / st.success of the run
    ncalls,         \* gateway calls the session's current run has issued
    clicked,        \* whether the run has met the submit button that started it
    runs,           \* runs of main() started so far
    act,            \* the step just taken: who, what, which row, which form
    lastMut,        \* the last change applied to the worksheet
    nsince          \* changes applied to the worksheet since the session loaded

vars == <<store, pc, json_file, df, selected_cat, search_term, cursor, msg,
          ncalls, clicked, runs, act, lastMut, nsince>>

NoMsg == [kind |-> "none", row |-> 0]
Message(k, n) == [kind |-> k, row |-> n]

\* the most recent change of the worksheet
Remember(op, n) == [op |-> op, row |-> n]

\* a step: its session, its kind, the row and the form it used, whether its
\* gateway call succeeded, and the change of the worksheet it came after
Step(s, k, n, f, ok) ==
    [by |-> s, kind |-> k, row |-> n, form |-> f, ok |-> ok, prior |-> lastMut]

\* every session sees one more change of the worksheet since its load
Bump == [t \in Sessions |-> IF nsince[t] < 2 THEN nsince[t] + 1 ELSE 2]

InitSheets == {<<>>, <<P3>>, <<P1, P2>>, <<P1, P2, P3>>}

Fresh ==
    /\ pc = [s \in Sessions |-> "idle"]
    /\ json_file = [s \in Sessions |-> "none"]
    /\ df = [s \in Sessions |-> <<>>]
    /\ selected_cat = [s \in Sessions |-> All]
    /\ search_term = [s \in Sessions |-> <<>>]
    /\ cursor = [s \in Sessions |-> 0]
    /\ msg = [s \in Sessions |-> NoMsg]
    /\ ncalls = [s \in Sessions |-> 0]
    /\ clicked = [s \in Sessions |-> FALSE]
    /\ runs = 0
    /\ lastMut = Remember("none", 0)
    /\ act = [by |-> "s1", kind |-> "init", row |-> 0, form |-> NoForm,
              ok |-> TRUE, prior |-> Remember("none", 0)]
    /\ nsince = [s \in Sessions |-> 0]

Init == store \in InitSheets /\ Fresh

\* the view the cards are drawn from
View(s) == FilteredDf(df[s], selected_cat[s], search_term[s])

\* ------------------------------------------------------------- main()
\* lines 67-71: a run starts; without an uploaded file it warns and returns
Upload(s) ==
    /\ pc[s] \in {"idle", "done", "halted", "crashed"}
    /\ runs < MaxRuns
    /\ runs' = runs + 1
    /\ \E f \in {"none", "bad", "good"} :
         /\ json_file' = [json_file EXCEPT ![s] = f]
         /\ IF f = "none"
            THEN /\ msg' = [msg EXCEPT ![s] = Message("no_file", 0)]
                 /\ pc' = [pc EXCEPT ![s] = "halted"]
            ELSE /\ msg' = [msg EXCEPT ![s] = NoMsg]
                 /\ pc' = [pc EXCEPT ![s] = "parse"]
    /\ df' = [df EXCEPT ![s] = <<>>]
    /\ selected_cat' = [selected_cat EXCEPT ![s] = All]
    /\ search_term' = [search_term EXCEPT ![s] = <<>>]
    /\ cursor' = [cursor EXCEPT ![s] = 0]
    /\ ncalls' = [ncalls EXCEPT ![s] = 0]
    /\ clicked' = [clicked EXCEPT ![s] = FALSE]
    /\ nsince' = [nsince EXCEPT ![s] = 0]
    /\ act' = Step(s, "upload", 0, NoForm, TRUE)
    /\ UNCHANGED <<store, lastMut>>

\* a parse that reports the bad file and goes on to the load
ParseNoReturn(s) ==
    /\ pc[s] = "parse"
    /\ IF json_file[s] = "bad"
       THEN msg' = [msg EXCEPT ![s] = Message("invalid_json", 0)]
       ELSE UNCHANGED msg
    /\ pc' = [pc EXCEPT ![s] = "load"]
    /\ act' = Step(s, "parse", 0, NoForm, json_file[s] # "bad")
    /\ UNCHANGED <<store, json_file, df, selected_cat, search_term, cursor,
                   ncalls, clicked, runs, lastMut, nsince>>

\* lines 74-79: the file's text is evaluated; a failure is reported, return
Parse(s) ==
    /\ pc[s] = "parse"
    /\ IF json_file[s] = "bad"
       THEN /\ msg' = [msg EXCEPT ![s] = Message("invalid_json", 0)]
            /\ pc' = [pc EXCEPT ![s] = "halted"]
       ELSE /\ pc' = [pc EXCEPT ![s] = "load"]
            /\ UNCHANGED msg
    /\ act' = Step(s, "parse", 0, NoForm, json_file[s] # "bad")
    /\ UNCHANGED <<store, json_file, df, selected_cat, search_term, cursor,
                   ncalls, clicked, runs, lastMut, nsince>>

\* lines 81-110: load_gsheet_data, the projection and KPIs, the two filters.
\* An empty sheet has no columns to project (line 88) and an empty row has
\* no price to average (line 93): both raise outside any try.
LoadFrom(s, picks, terms) ==
    /\ pc[s] = "load"
    /\ ncalls' = [ncalls EXCEPT ![s] = @ + 1]
    /\ nsince' = [nsince EXCEPT ![s] = 0]
    /\ \E ok \in BOOLEAN :
         /\ act' = Step(s, "load", 0, NoForm, ok)
         /\ IF ~ok
            THEN /\ msg' = [msg EXCEPT ![s] = Message("load_error", 0)]
                 /\ pc' = [pc EXCEPT ![s] = "halted"]
                 /\ UNCHANGED <<df, selected_cat, search_term, cursor>>
            ELSE IF store = <<>> \/ \E i \in 1..Len(store) : store[i] = Blank
            THEN /\ pc' = [pc EXCEPT ![s] = "crashed"]
                 /\ UNCHANGED <<msg, df, selected_cat, search_term, cursor>>
            ELSE /\ df' = [df EXCEPT ![s] = Frame(store)]
                 /\ \E cat \in Categories(Frame(store)) \cap picks, term \in terms :
                      /\ selected_cat' = [selected_cat EXCEPT ![s] = cat]
                      /\ search_term' = [search_term EXCEPT ![s] = term]
                      /\ pc' = [pc EXCEPT ![s] =
                                  IF FilteredDf(Frame(store), cat, term) = <<>>
                                  THEN "add" ELSE "cards"]
                 /\ cursor' = [cursor EXCEPT ![s] = 1]
                 /\ UNCHANGED msg
    /\ UNCHANGED <<store, json_file, clicked, runs, lastMut>>

Load(s) == LoadFrom(s, CategoryPicks, SearchTerms)

\* the for loop of line 115 moves to its next card, or ends
Advance(s) ==
    /\ cursor' = [cursor EXCEPT ![s] = @ + 1]
    /\ pc' = [pc EXCEPT ![s] = IF cursor[s] >= Len(View(s)) THEN "add" ELSE "cards"]

\* the card the loop stands at, and its sheet row
Card(s) == View(s)[cursor[s]]
CardRow(s) == SheetRowNum(df[s], Card(s))

\* st.form_submit_button is True only in the run its click started, and a
\* click starts one run: at most one submit button is True in a run.
Submit(s) ==
    /\ ~clicked[s]
    /\ clicked' = [clicked EXCEPT ![s] = TRUE]

\* lines 115-130: a card whose form was not submitted
CardSkip(s) ==
    /\ pc[s] = "cards"
    /\ Advance(s)
    /\ act' = Step(s, "skip", CardRow(s), NoForm, TRUE)
    /\ UNCHANGED <<store, json_file, df, selected_cat, search_term, msg,
                   ncalls, clicked, runs, lastMut, nsince>>

\* an update that first looks the record up and skips when it is gone
UpdateIfPresent(s, n, f) ==
    IF \E i \in 1..Len(store) : RowToRecord(store[i]) = Card(s).rec
    THEN /\ ncalls' = [ncalls EXCEPT ![s] = @ + 1]
         /\ store' = SheetUpdate(store, n, Values(f))
         /\ msg' = [msg EXCEPT ![s] = Message("updated", n)]
         /\ lastMut' = Remember("update", n)
         /\ nsince' = Bump
         /\ UNCHANGED <<df, selected_cat, search_term>>
    ELSE UNCHANGED <<ncalls, store, msg, lastMut, nsince, df, selected_cat,
                     search_term>>

\* lines 134-136: the try body of the update
UpdateOk(s, n, f) ==
    /\ ncalls' = [ncalls EXCEPT ![s] = @ + 1]
    /\ store' = SheetUpdate(store, n, Values(f))
    /\ msg' = [msg EXCEPT ![s] = Message("updated", n)]
    /\ lastMut' = Remember("update", n)
    /\ nsince' = Bump
    /\ UNCHANGED <<df, selected_cat, search_term>>

\* an except clause that swallows the failure
UpdateFailedSilently(s, n) ==
    /\ ncalls' = [ncalls EXCEPT ![s] = @ + 1]
    /\ UNCHANGED <<msg, store, lastMut, nsince, df, selected_cat, search_term>>

\* lines 137-138: the except clause of the update
UpdateFailed(s, n) ==
    /\ ncalls' = [ncalls EXCEPT ![s] = @ + 1]
    /\ msg' = [msg EXCEPT ![s] = Message("update_failed", n)]
    /\ UNCHANGED <<store, lastMut, nsince, df, selected_cat, search_term>>

\* lines 132-138: update_btn
CardUpdate(s) ==
    /\ pc[s] = "cards"
    /\ Submit(s)
    /\ Advance(s)
    /\ \E f \in EditInputs, ok \in BOOLEAN :
         /\ act' = Step(s, "update", CardRow(s), f, ok)
         /\ IF ok THEN UpdateOk(s, CardRow(s), f) ELSE UpdateFailed(s, CardRow(s))
    /\ UNCHANGED <<json_file, runs>>

\* a delete that also drops the row from the session's DataFrame
DeleteOkDropsRow(s, n) ==
    /\ ncalls' = [ncalls EXCEPT ![s] = @ + 1]
    /\ store' = SheetDelete(store, n)
    /\ msg' = [msg EXCEPT ![s] = Message("deleted", n)]
    /\ lastMut' = Remember("delete", n)
    /\ nsince' = Bump
    /\ df' = [df EXCEPT ![s] = SelectSeq(@, LAMBDA e : e.idx # n - 2)]
    /\ UNCHANGED <<selected_cat, search_term>>

\* lines 141-143: the try body of the delete
DeleteOk(s, n) ==
    /\ ncalls' = [ncalls EXCEPT ![s] = @ + 1]
    /\ store' = SheetDelete(store, n)
    /\ msg' = [msg EXCEPT ![s] = Message("deleted", n)]
    /\ lastMut' = Remember("delete", n)
    /\ nsince' = Bump
    /\ UNCHANGED <<df, selected_cat, search_term>>

\* lines 144-145: the except clause of the delete
DeleteFailed(s, n) ==
    /\ ncalls' = [ncalls EXCEPT ![s] = @ + 1]
    /\ msg' = [msg EXCEPT ![s] = Message("delete_failed", n)]
    /\ UNCHANGED <<store, lastMut, nsince, df, selected_cat, search_term>>

\* lines 140-145: delete_btn
CardDelete(s) ==
    /\ pc[s] = "cards"
    /\ Submit(s)
    /\ Advance(s)
    /\ \E ok \in BOOLEAN :
         /\ act' = Step(s, "delete", CardRow(s), NoForm, ok)
         /\ IF ok THEN DeleteOk(s, CardRow(s)) ELSE DeleteFailed(s, CardRow(s))
    /\ UNCHANGED <<json_file, runs>>

\* lines 149-180: the add form was not submitted; the exports; the run ends
AddIdle(s) ==
    /\ pc[s] = "add"
    /\ pc' = [pc EXCEPT ![s] = "done"]
    /\ act' = Step(s, "noadd", 0, NoForm, TRUE)
    /\ UNCHANGED <<store, json_file, df, selected_cat, search_term, cursor,
                   msg, ncalls, clicked, runs, lastMut, nsince>>

\* a check that lets a form through when only one of the two is filled in
MissingBoth(f) == f.category = <<>> /\ f.item = <<>>

\* line 159: not new_category or not new_item
Missing(f) == f.category = <<>> \/ f.item = <<>>

\* lines 158-180: submit_add; the exports; the run ends
AddSubmit(s) ==
    /\ pc[s] = "add"
    /\ Submit(s)
    /\ pc' = [pc EXCEPT ![s] = "done"]
    /\ \E f \in FormInputs :
         IF Missing(f)
         THEN /\ act' = Step(s, "rejected", 0, f, TRUE)
              /\ msg' = [msg EXCEPT ![s] = Message("required", 0)]
              /\ UNCHANGED <<store, ncalls, lastMut, nsince>>
         ELSE /\ ncalls' = [ncalls EXCEPT ![s] = @ + 1]
              /\ \E ok \in BOOLEAN :
                   /\ act' = Step(s, "add", Len(store) + 2, f, ok)
                   /\ IF ok
                      THEN /\ Len(store) < MaxRows
                           /\ store' = SheetAppend(store, Values(f))
                           /\ msg' = [msg EXCEPT ![s] = Message("added", 0)]
                           /\ lastMut' = Remember("append", Len(store) + 2)
                           /\ nsince' = Bump
                      ELSE /\ msg' = [msg EXCEPT ![s] = Message("add_failed", 0)]
                           /\ UNCHANGED <<store, lastMut, nsince>>
    /\ UNCHANGED <<json_file, df, selected_cat, search_term, cursor, runs>>

Next ==
    \E s \in Sessions :
        \/ Upload(s)
        \/ Parse(s)
        \/ Load(s)
        \/ CardSkip(s)
        \/ CardUpdate(s)
        \/ CardDelete(s)
        \/ AddIdle(s)
        \/ AddSubmit(s)

Spec == Init /\ [][Next]_vars

\* ------------------------------------------ runs that only load and filter
\* any sheet of at most MaxRows rows, one session, a wider choice of terms
InitView ==
    /\ store \in UNION {[1..n -> ViewRows] : n \in 1..MaxRows}
    /\ Fresh

LoadView(s) == LoadFrom(s, ViewPicks, ViewTerms)

NextView == Upload("s1") \/ Parse("s1") \/ LoadView("s1")

SpecView == InitView /\ [][NextView]_vars

\* ------------------------------------------------------------ properties
Rendered(s) == pc[s] \in {"cards", "add", "done"}

\* the five cells a form is expected to put into a row, in column order
FiveFields(f) == <<f.category, f.item, f.price, f.turnaround, f.notes>>

\* the records of the worksheet
StoreRecords == {RowToRecord(store[i]) : i \in 1..Len(store)}

SameKey(a, b) == a.category = b.category /\ a.item = b.item

\* the card a mutating step has just handled (the loop has moved past it)
Handled(s) == View(s)[cursor[s] - 1]

\* C1: every card of the filtered view carries the row number index + 2 of
\* its record in the full loaded table, never its position in the filtered
\* view, and every update or delete is issued for such a number, which lies
\* in 2..len(TableView)+1.
C1_RowNumberIsIndexPlusTwo ==
    /\ \A s \in Sessions :
         Rendered(s) =>
           \A k \in 1..Len(View(s)) :
             LET n == SheetRowNum(df[s], View(s)[k])
             IN  /\ n \in 2..(Len(df[s]) + 1)
                 /\ df[s][n - 1] = View(s)[k]
                 /\ n = View(s)[k].idx + 2
    /\ act.kind \in {"update", "delete"} =>
         /\ act.row \in 2..(Len(df[act.by]) + 1)
         /\ df[act.by][act.row - 1] = Handled(act.by)

\* an update or delete was issued from a filtered view for a card whose
\* position in that view differs from its index in the full table
C1_Witness ==
    /\ act.kind \in {"update", "delete"}
    /\ act.ok
    /\ Len(View(act.by)) < Len(df[act.by])
    /\ act.row # cursor[act.by]
    /\ act.row = Handled(act.by).idx + 2

Duplicated(s) ==
    /\ Rendered(s)
    /\ Len(df[s]) >= 2
    /\ SameKey(df[s][1].rec, df[s][2].rec)

\* C2 as stated: with identical (category, item) at sheet rows 2 and 3,
\* either of the two records resolves to row 2.
C2_DuplicatesResolveToFirst ==
    \A s \in Sessions :
      Duplicated(s) =>
        /\ \A k \in 1..Len(View(s)) :
             View(s)[k].idx \in {0, 1} => SheetRowNum(df[s], View(s)[k]) = 2
        /\ (act.by = s /\ act.kind \in {"update", "delete"}
              /\ Handled(s).idx \in {0, 1}) => act.row = 2

\* C2 amended: with identical (category, item) at sheet rows 2 and 3, each
\* of the two records resolves to its own row, the first to row 2 and the
\* second to row 3, and the update or delete of a card is sent to the row of
\* that card.
C2_DuplicatesKeepOwnRow ==
    \A s \in Sessions :
      Duplicated(s) =>
        /\ \A k \in 1..Len(View(s)) :
             /\ View(s)[k].idx = 0 => SheetRowNum(df[s], View(s)[k]) = 2
             /\ View(s)[k].idx = 1 => SheetRowNum(df[s], View(s)[k]) = 3
        /\ (act.by = s /\ act.kind \in {"update", "delete"}
              /\ Handled(s).idx \in {0, 1}) => act.row = Handled(s).idx + 2

\* the second of two records with the same key was updated or deleted, and
\* the call went to row 3
C2_Witness ==
    /\ Duplicated(act.by)
    /\ act.kind \in {"update", "delete"}
    /\ act.ok
    /\ Handled(act.by).idx = 1
    /\ act.row = 3

\* the rows of a sheet without the row at sheet row number n
Without(rows, n) ==
    [i \in 1..(Len(rows) - 1) |-> IF i < n - 1 THEN rows[i] ELSE rows[i + 1]]

\* C3: a delete of row n that follows a delete of the same row n, with no
\* load of the deleting session and no other change of the sheet in between,
\* removes the record that was at row n+1 when the session loaded its view.
C3_StaleSecondDelete ==
    [][ ( /\ act'.kind = "delete"
          /\ act'.ok
          /\ lastMut = Remember("delete", act'.row)
          /\ nsince[act'.by] = 1
          /\ act'.row <= Len(df[act'.by]) )
        => LET s == act'.by
               n == act'.row
           IN  /\ n - 1 <= Len(store)
               /\ RowToRecord(store[n - 1]) = df[s][n].rec
               /\ store' = Without(store, n)
               /\ Len(store') = Len(df[s]) - 2
               /\ \A i \in 1..Len(store') :
                    RowToRecord(store'[i]) =
                      IF i < n - 1 THEN df[s][i].rec ELSE df[s][i + 2].rec
      ]_vars

\* a session has just deleted row n right after another delete of row n,
\* both since its load, and its view still shows the rows as loaded
C3_Witness ==
    /\ act.kind = "delete"
    /\ act.ok
    /\ act.prior = Remember("delete", act.row)
    /\ nsince[act.by] = 2
    /\ act.row <= Len(df[act.by])
    /\ Len(store) = Len(df[act.by]) - 2

\* the record of the card at the loop's position is no longer in the sheet
Gone(s) == pc[s] = "cards" /\ Card(s).rec \notin StoreRecords

\* C4 as stated: an update or delete of a record that is no longer in the
\* backing store is skipped: it changes nothing in the store and surfaces
\* no message (here with a gateway that would have carried the call out).
C4_MissingRecordIsNoOp ==
    [][ \A s \in Sessions :
          (Gone(s) /\ act'.by = s /\ act'.kind \in {"update", "delete"}
             /\ act'.ok)
          => (store' = store /\ msg'[s] = msg[s])
      ]_vars

\* C4 amended: an update or delete of a record that is no longer in the
\* backing store is still issued, once, for the row number index + 2 of the
\* session's view; when the call succeeds an update puts the submitted
\* values into that row and a delete removes whatever row now has that
\* number, and the success is reported; when it fails the failure is
\* reported.
C4_MissingRecordStillAddressed ==
    [][ \A s \in Sessions :
          (Gone(s) /\ act'.by = s /\ act'.kind \in {"update", "delete"})
          => /\ ncalls'[s] = ncalls[s] + 1
             /\ act'.row = Card(s).idx + 2
             /\ act'.kind = "update" /\ act'.ok =>
                  /\ store'[act'.row - 1] = FiveFields(act'.form)
                  /\ msg'[s] = Message("updated", act'.row)
             /\ act'.kind = "delete" /\ act'.ok =>
                  /\ store' = (IF act'.row - 1 <= Len(store)
                               THEN Trim(Without(store, act'.row)) ELSE store)
                  /\ msg'[s] = Message("deleted", act'.row)
             /\ ~act'.ok =>
                  /\ store' = store
                  /\ msg'[s].kind \in {"update_failed", "delete_failed"}
      ]_vars

\* a session updated the row of a record that another session had deleted
\* since the first one loaded, and the sheet holds the update
C4_Witness ==
    /\ act.kind = "update"
    /\ act.ok
    /\ act.prior.op = "delete"
    /\ nsince[act.by] = 2
    /\ Handled(act.by).rec \notin StoreRecords
    /\ act.row - 1 <= Len(store)
    /\ store[act.row - 1] = FiveFields(act.form)

\* C5: no add, update or delete, successful or failed, of any session
\* changes a session's TableView or its filters; only the session's own
\* reload (a new run and its load) does.
C5_MutationsLeaveViewAlone ==
    [][ \A s \in Sessions :
          /\ (df'[s] # df[s] \/ selected_cat'[s] # selected_cat[s]
                \/ search_term'[s] # search_term[s])
             => (act'.by = s /\ act'.kind \in {"upload", "load"})
          /\ act'.kind \in {"update", "delete", "add", "rejected"}
             => FilteredDf(df'[s], selected_cat'[s], search_term'[s]) = View(s)
      ]_vars

\* a session's successful delete has changed the sheet, and the session's
\* view still holds all the rows it loaded
C5_Witness ==
    /\ act.kind = "delete"
    /\ act.ok
    /\ Len(store) < Len(df[act.by])
    /\ df[act.by][act.row - 1].idx = act.row - 2

\* C6: a failed gateway call of an update, delete or add is made once, is
\* reported as an error message, leaves the sheet and every view as they
\* were, and the run goes on: to the next card, to the add form, or to its
\* end after the exports.
C6_FailureIsReportedAndContained ==
    [][ (act'.kind \in {"update", "delete", "add"} /\ ~act'.ok)
        => LET s == act'.by
           IN  /\ ncalls'[s] = ncalls[s] + 1
               /\ store' = store
               /\ df' = df
               /\ msg'[s] = Message(CASE act'.kind = "update" -> "update_failed"
                                      [] act'.kind = "delete" -> "delete_failed"
                                      [] OTHER -> "add_failed",
                                    IF act'.kind = "add" THEN 0 ELSE act'.row)
               /\ pc'[s] = (IF pc[s] = "add" THEN "done"
                            ELSE IF cursor[s] < Len(View(s)) THEN "cards"
                            ELSE "add")
               /\ pc[s] = "cards" => cursor'[s] = cursor[s] + 1
      ]_vars

\* an update failed on a card that is not the last one, and the loop stands
\* at the next card
C6_Witness ==
    /\ act.kind = "update"
    /\ ~act.ok
    /\ pc[act.by] = "cards"
    /\ msg[act.by] = Message("update_failed", act.row)
    /\ cursor[act.by] <= Len(View(act.by))

\* C7: a submitted add form with an empty category or item is reported and
\* issues no call; any other issues one append, which on success puts the
\* five fields, in the order category, item, price, turnaround, notes, into
\* the row after the last and changes no other row.
C7_AddValidatesAndAppends ==
    [][ act'.kind \in {"add", "rejected"}
        => LET s == act'.by
               f == act'.form
           IN  IF f.category = <<>> \/ f.item = <<>>
               THEN /\ act'.kind = "rejected"
                    /\ msg'[s] = Message("required", 0)
                    /\ store' = store
                    /\ ncalls'[s] = ncalls[s]
               ELSE /\ act'.kind = "add"
                    /\ ncalls'[s] = ncalls[s] + 1
                    /\ act'.ok =>
                         /\ Len(store') = Len(store) + 1
                         /\ store'[Len(store) + 1] = FiveFields(f)
                         /\ \A i \in 1..Len(store) : store'[i] = store[i]
                    /\ ~act'.ok => store' = store
      ]_vars

\* a form with an empty item was rejected in one session and a complete
\* form was appended below the rows of the sheet
C7_Witness ==
    /\ act.kind = "add"
    /\ act.ok
    /\ Len(store) >= 2
    /\ store[Len(store)] = FiveFields(act.form)
    /\ \E s \in Sessions : msg[s] = Message("required", 0)

\* C8: a run issues a gateway call only after its credential file was
\* uploaded and parsed; without a file, or with a malformed one, it reports
\* that and halts with no call made; when the load fails it reports that and
\* halts with no view, and no update, delete, add or export follows.
C8_NoGatewayBeforeCredential ==
    /\ \A s \in Sessions :
         /\ json_file[s] # "good" =>
              /\ ncalls[s] = 0
              /\ df[s] = <<>>
              /\ pc[s] \in {"idle", "parse", "halted"}
         /\ (json_file[s] = "none" /\ pc[s] # "idle") =>
              (pc[s] = "halted" /\ msg[s] = Message("no_file", 0))
         /\ (json_file[s] = "bad" /\ pc[s] # "parse") =>
              (pc[s] = "halted" /\ msg[s] = Message("invalid_json", 0))
         /\ pc[s] = "parse" => ncalls[s] = 0
         /\ msg[s].kind = "load_error" =>
              (pc[s] = "halted" /\ df[s] = <<>> /\ ncalls[s] = 1)
         /\ pc[s] = "crashed" => (df[s] = <<>> /\ ncalls[s] = 1)
         /\ Rendered(s) => (json_file[s] = "good" /\ ncalls[s] >= 1)
    /\ act.kind \in {"load", "update", "delete", "add"} =>
         json_file[act.by] = "good"

\* one run halted on a malformed file and another on a failed load, neither
\* with a view
C8_Witness ==
    \E s, t \in Sessions :
        /\ json_file[s] = "bad" /\ pc[s] = "halted"
        /\ msg[s] = Message("invalid_json", 0)
        /\ msg[t] = Message("load_error", 0) /\ pc[t] = "halted"

OccursIn(term, text) ==
    \E p \in 1..Len(text) :
        /\ p + Len(term) - 1 <= Len(text)
        /\ \A j \in 1..Len(term) : LowerChar(text[p + j - 1]) = LowerChar(term[j])

Kept(e, cat, term) ==
    /\ cat = All \/ e.rec.category = cat
    /\ term = <<>> \/ OccursIn(term, e.rec.item) \/ OccursIn(term, e.rec.notes)

\* C10: the filtered view holds, in the order of the full table and with
\* their index labels, exactly the records whose category is the selected
\* one (any under "All") and, for a non-empty term, whose item or notes
\* has the term, letter case ignored; under "All" with an empty term it is
\* the full table.
C10_FilteredViewIsTheMatchingSubsequence ==
    \A s \in Sessions :
      Rendered(s) =>
        LET v == View(s)
            cat == selected_cat[s]
            term == search_term[s]
        IN  /\ \A k \in 1..Len(v) :
                 /\ v[k].idx + 1 \in 1..Len(df[s])
                 /\ df[s][v[k].idx + 1] = v[k]
                 /\ Kept(v[k], cat, term)
            /\ \A k \in 1..(Len(v) - 1) : v[k].idx < v[k + 1].idx
            /\ \A i \in 1..Len(df[s]) :
                 Kept(df[s][i], cat, term) => \E k \in 1..Len(v) : v[k] = df[s][i]
            /\ (cat = All /\ term = <<>>) => v = df[s]

\* a search left out a record that has the term only in its turnaround and
\* kept one that has it, in the other letter case, in its item
C10_Witness ==
    \E s \in Sessions :
      /\ Rendered(s)
      /\ search_term[s] = <<"b">>
      /\ \E i \in 1..Len(df[s]) :
           /\ df[s][i].rec.turnaround = <<"b">>
           /\ \A k \in 1..Len(View(s)) : View(s)[k] # df[s][i]
      /\ \E k \in 1..Len(View(s)) : View(s)[k].rec.item = <<"B">>

====
